---- MODULE Spec2Model ----
(***************************************************************************)
(* Model of lambda-runtime-client/src/error.rs: the ErrorResponse envelope *)
(* (new, From<T>), the ApiError wrapper around failure's                   *)
(* Context<ApiErrorKind> (is_recoverable, Fail, Display, LambdaErrorExt,   *)
(* the two From conversions), and a caller that retries or reports.        *)
(*                                                                         *)
(* Strings that are only compared or concatenated (messages, type tags)    *)
(* are TLA+ strings.  The Debug rendering of a backtrace is a sequence of  *)
(* one-character strings, so that splitting it into lines is computed.     *)
(***************************************************************************)
EXTENDS Naturals, Sequences, FiniteSets, TLC

VARIABLES env, err, op, arg, ret, resp, src, src2, resp2,
          cpc, cerr, attempts, reported

vars == <<env, err, op, arg, ret, resp, src, src2, resp2,
          cpc, cerr, attempts, reported>>
libvars == <<err, op, arg, ret, resp, src, src2, resp2>>
callervars == <<cpc, cerr, attempts, reported>>

-----------------------------------------------------------------------------
(* Bounds of the model. *)

\* longest backtrace rendering, in characters
MaxLen == 3
\* most failures of one operation the caller is made to see
MaxAttempts == 2

-----------------------------------------------------------------------------
(* Values. *)

None == [tag |-> "None"]
Some(x) == [tag |-> "Some", val |-> x]

NoErr == [type |-> "NoErr"]
NoResp == [tag |-> "NoResp"]
NoArg == [tag |-> "NoArg"]

\* pub const RUNTIME_ERROR_TYPE
RUNTIME_ERROR_TYPE == "RustRuntimeError"

\* the messages an ApiErrorKind is built with
Messages == {"", "timeout"}

\* enum ApiErrorKind { Recoverable(String), Unrecoverable(String) }
Recoverable(m) == [tag |-> "Recoverable", msg |-> m]
Unrecoverable(m) == [tag |-> "Unrecoverable", msg |-> m]
ApiErrorKinds == {Recoverable(m) : m \in Messages} \cup {Unrecoverable(m) : m \in Messages}

\* characters of a backtrace rendering
Chars == {"a", "\n", "\r"}

RECURSIVE TextsOfLen(_)
TextsOfLen(n) ==
    IF n = 0 THEN {<<>>}
    ELSE {Append(t, c) : t \in TextsOfLen(n - 1), c \in Chars}

Texts == UNION {TextsOfLen(n) : n \in 0..MaxLen}

\* failure::Backtrace: the captured stack, or nothing when capture is disabled
BtNone == [captured |-> FALSE, text |-> <<>>]
BtCaptured(t) == [captured |-> TRUE, text |-> t]

\* Backtrace::new() reads the ambient toggle: what it can return under toggle e
Captures(e) == IF e THEN {BtCaptured(t) : t \in Texts} ELSE {BtNone}

\* format!("{:?}", stack): a backtrace without a capture prints nothing
Backtrace_debug(bt) == IF bt.captured THEN bt.text ELSE <<>>

\* names of the lower-level failures a context can be chained onto
Causes == {"io"}

\* failure::Context<ApiErrorKind>: the kind plus either its own backtrace
\* (Context::new) or the error it was chained onto (error.context(kind))
Context_new(kind, bt) ==
    [context |-> kind, failure |-> [tag |-> "This", bt |-> bt]]
Context_with_err(kind, cause, bt) ==
    [context |-> kind, failure |-> [tag |-> "That", cause |-> cause, bt |-> bt]]

Contexts(e) ==
    {Context_new(k, bt) : k \in ApiErrorKinds, bt \in Captures(e)}
    \cup {Context_with_err(k, c, bt) : k \in ApiErrorKinds, c \in Causes, bt \in Captures(e)}

\* Context's accessors: the cause is the error it was chained onto, if any;
\* backtrace() always answers Some, of its own backtrace or of that error's,
\* whether or not anything was captured
Context_get_context(c) == c.context
Context_cause(c) == IF c.failure.tag = "That" THEN Some(c.failure.cause) ELSE None
Context_backtrace(c) == Some(c.failure.bt)

\* any other T: AsFail + LambdaErrorExt + Display (an application error)
OtherDisplays == {"Test error"}
OtherTypes == {"failure::Compat", "MyError"}
OtherErrors(e) ==
    {[type |-> "Other", display |-> d, error_type |-> t, backtrace |-> b] :
        d \in OtherDisplays, t \in OtherTypes,
        b \in {None} \cup {Some(bt) : bt \in Captures(e)}}


-----------------------------------------------------------------------------
(* str::lines as used by ErrorResponse::new: the text is cut after every    *)
(* "\n"; a piece loses its "\n" and then a "\r" right before it; a last     *)
(* piece without "\n" is kept as it is; an empty text has no line.          *)

StripCR(s) ==
    IF Len(s) > 0 /\ s[Len(s)] = "\r" THEN SubSeq(s, 1, Len(s) - 1) ELSE s

RECURSIVE LinesFrom(_, _, _)
LinesFrom(t, i, cur) ==
    IF i > Len(t) THEN (IF cur = <<>> THEN <<>> ELSE <<cur>>)
    ELSE IF t[i] = "\n" THEN <<StripCR(cur)>> \o LinesFrom(t, i + 1, <<>>)
    ELSE LinesFrom(t, i + 1, Append(cur, t[i]))

lines(t) == LinesFrom(t, 1, <<>>)

-----------------------------------------------------------------------------
(* ApiError and ApiErrorKind. *)

\* the display attribute of Recoverable copied onto Unrecoverable
ApiErrorKind_fmt_one_label(kind) == "Recoverable API error: " \o kind.msg

\* #[fail(display = "...")] on the variants of ApiErrorKind
ApiErrorKind_fmt(kind) ==
    IF kind.tag = "Recoverable" THEN "Recoverable API error: " \o kind.msg
    ELSE "Unrecoverable API error: " \o kind.msg

\* impl From<ApiErrorKind> for ApiError; bt is what Backtrace::new() captures
ApiError_from_kind(kind, bt) == [type |-> "ApiError", inner |-> Context_new(kind, bt)]

\* From<Context> starting a fresh chain from the context's kind
ApiError_from_context_fresh(inner) ==
    [type |-> "ApiError", inner |-> Context_new(Context_get_context(inner), BtNone)]

\* impl From<Context<ApiErrorKind>> for ApiError
ApiError_from_context(inner) == [type |-> "ApiError", inner |-> inner]

\* is_recoverable with the message taking part in the answer
is_recoverable_by_message(e) ==
    Context_get_context(e.inner).tag = "Recoverable" /\ Context_get_context(e.inner).msg # ""

\* is_recoverable with the catch-all arm answering true
is_recoverable_always(e) == TRUE

\* ApiError::is_recoverable
is_recoverable(e) ==
    IF Context_get_context(e.inner).tag = "Recoverable" THEN TRUE ELSE FALSE

\* impl Fail for ApiError
ApiError_cause(e) == Context_cause(e.inner)
ApiError_backtrace(e) == Context_backtrace(e.inner)

\* impl Display for ApiError: Context displays its context
ApiError_fmt(e) == ApiErrorKind_fmt(Context_get_context(e.inner))

\* error_type that tells the kinds apart
ApiError_error_type_by_kind(e) ==
    IF Context_get_context(e.inner).tag = "Recoverable"
    THEN "RuntimeApiError" ELSE RUNTIME_ERROR_TYPE

\* impl LambdaErrorExt for ApiError
ApiError_error_type(e) == "RuntimeApiError"

-----------------------------------------------------------------------------
(* The capabilities From<T> uses, dispatched on the type of the value. *)

Display_fmt(e) == IF e.type = "ApiError" THEN ApiError_fmt(e) ELSE e.display
error_type(e) == IF e.type = "ApiError" THEN ApiError_error_type(e) ELSE e.error_type
Fail_backtrace(e) == IF e.type = "ApiError" THEN ApiError_backtrace(e) ELSE e.backtrace

-----------------------------------------------------------------------------
(* ErrorResponse. *)

\* new starting from Some(vec![]) instead of Option::default()
ErrorResponse_new_empty_default(message, err_type, backtrace) ==
    LET e0 == [error_message |-> message,
               error_type |-> err_type,
               stack_trace |-> Some(<<>>)]
    IN  IF backtrace.tag = "Some"
        THEN [e0 EXCEPT !.stack_trace = Some(lines(Backtrace_debug(backtrace.val)))]
        ELSE e0

\* new skipping the blank lines of the rendering
ErrorResponse_new_no_blank(message, err_type, backtrace) ==
    LET e0 == [error_message |-> message,
               error_type |-> err_type,
               stack_trace |-> None]
        NotBlank(l) == l # <<>>
    IN  IF backtrace.tag = "Some"
        THEN [e0 EXCEPT !.stack_trace =
                  Some(SelectSeq(lines(Backtrace_debug(backtrace.val)), NotBlank))]
        ELSE e0

\* new keeping the trace only when the rendering has a line
ErrorResponse_new_nonempty_only(message, err_type, backtrace) ==
    LET e0 == [error_message |-> message,
               error_type |-> err_type,
               stack_trace |-> None]
    IN  IF backtrace.tag = "Some" /\ lines(Backtrace_debug(backtrace.val)) # <<>>
        THEN [e0 EXCEPT !.stack_trace = Some(lines(Backtrace_debug(backtrace.val)))]
        ELSE e0

\* ErrorResponse::new
ErrorResponse_new(message, err_type, backtrace) ==
    LET e0 == [error_message |-> message,
               error_type |-> err_type,
               stack_trace |-> None]
    IN  IF backtrace.tag = "Some"
        THEN [e0 EXCEPT !.stack_trace = Some(lines(Backtrace_debug(backtrace.val)))]
        ELSE e0

\* From<T> passing the two strings in the other order
ErrorResponse_from_swapped(e) ==
    ErrorResponse_new(error_type(e), Display_fmt(e), Fail_backtrace(e))

\* impl<T: AsFail + LambdaErrorExt + Display> From<T> for ErrorResponse
ErrorResponse_from(e) ==
    ErrorResponse_new(Display_fmt(e), error_type(e), Fail_backtrace(e))

-----------------------------------------------------------------------------
(* The operations of the module, one action each.  err is the error value   *)
(* in hand, arg the input it was built from, ret the answer of the last     *)
(* accessor, resp the envelope of the last conversion and src the value     *)
(* that conversion consumed.  src2 is the same error built a second time,   *)
(* with the backtrace that second construction captures, and resp2 its      *)
(* envelope.  A unit of work builds one error, inspects it and converts it; *)
(* Finish ends the unit and drops its values.                               *)

\* the error value e with bt as its backtrace: what building e again gives
\* when that construction captures bt (a value without a backtrace has none
\* the second time either)
WithBacktrace(e, bt) ==
    IF e.type = "ApiError" THEN [e EXCEPT !.inner.failure.bt = bt]
    ELSE IF e.backtrace.tag = "Some" THEN [e EXCEPT !.backtrace = Some(bt)]
    ELSE e

\* the values that building e again can give under toggle t
BuiltAgain(e, t) == {WithBacktrace(e, bt) : bt \in Captures(t)}

Init ==
    /\ env \in BOOLEAN
    /\ err = NoErr
    /\ op = "init"
    /\ arg = NoArg
    /\ ret = None
    /\ resp = NoResp
    /\ src = NoErr
    /\ src2 = NoErr
    /\ resp2 = NoResp
    /\ cpc = "call"
    /\ cerr = NoErr
    /\ attempts = 0
    /\ reported = <<>>

Fresh == err = NoErr /\ src = NoErr

Built(e, name, input) ==
    /\ err' = e
    /\ op' = name
    /\ arg' = input
    /\ ret' = None
    /\ resp' = NoResp
    /\ src' = NoErr
    /\ src2' = NoErr
    /\ resp2' = NoResp
    /\ UNCHANGED <<env, callervars>>

Answered(name, value) ==
    /\ op' = name
    /\ ret' = value
    /\ UNCHANGED <<env, err, arg, resp, src, src2, resp2, callervars>>

FromKind ==
    /\ Fresh
    /\ \E kind \in ApiErrorKinds, bt \in Captures(env) :
           Built(ApiError_from_kind(kind, bt), "from_kind", kind)

FromContext ==
    /\ Fresh
    /\ \E inner \in Contexts(env) :
           Built(ApiError_from_context(inner), "from_context", inner)

NewOther ==
    /\ Fresh
    /\ \E e \in OtherErrors(env) : Built(e, "other", NoArg)

IsRecoverable ==
    /\ err.type = "ApiError"
    /\ Answered("is_recoverable", is_recoverable(err))

Cause ==
    /\ err.type = "ApiError"
    /\ Answered("cause", ApiError_cause(err))

GetBacktrace ==
    /\ err.type = "ApiError"
    /\ Answered("backtrace", ApiError_backtrace(err))

Fmt ==
    /\ err.type = "ApiError"
    /\ Answered("display", ApiError_fmt(err))

ErrorType ==
    /\ err.type = "ApiError"
    /\ Answered("error_type", ApiError_error_type(err))

Convert ==
    /\ err # NoErr
    /\ resp' = ErrorResponse_from(err)
    /\ src' = err
    /\ err' = NoErr
    /\ op' = "convert"
    /\ ret' = None
    /\ src2' = NoErr
    /\ resp2' = NoResp
    /\ UNCHANGED <<env, arg, callervars>>

Reconvert ==
    /\ src # NoErr
    /\ resp2 = NoResp
    /\ \E e \in BuiltAgain(src, env) :
           /\ src2' = e
           /\ resp2' = ErrorResponse_from(e)
    /\ op' = "reconvert"
    /\ UNCHANGED <<env, err, arg, ret, resp, src, callervars>>

Finish ==
    /\ resp # NoResp
    /\ err' = NoErr
    /\ op' = "init"
    /\ arg' = NoArg
    /\ ret' = None
    /\ resp' = NoResp
    /\ src' = NoErr
    /\ src2' = NoErr
    /\ resp2' = NoResp
    /\ UNCHANGED <<env, callervars>>

Next ==
    \/ FromKind
    \/ FromContext
    \/ NewOther
    \/ IsRecoverable
    \/ Cause
    \/ GetBacktrace
    \/ Fmt
    \/ ErrorType
    \/ Convert
    \/ Reconvert
    \/ Finish

Spec == Init /\ [][Next]_vars

-----------------------------------------------------------------------------
(* The caller of the failure semantics: it performs an operation that may   *)
(* fail with an ApiError, asks is_recoverable, and either performs the      *)
(* operation again or reports the envelope and stops.                       *)

OpFail ==
    /\ cpc = "call"
    /\ attempts < MaxAttempts
    /\ \E kind \in ApiErrorKinds, bt \in Captures(env) :
           cerr' = ApiError_from_kind(kind, bt)
    /\ cpc' = "failed"
    /\ attempts' = attempts + 1
    /\ UNCHANGED <<env, libvars, reported>>

OpSucceed ==
    /\ cpc = "call"
    /\ cpc' = "done"
    /\ UNCHANGED <<env, libvars, cerr, attempts, reported>>

Retry ==
    /\ cpc = "failed"
    /\ is_recoverable(cerr)
    /\ cpc' = "call"
    /\ cerr' = NoErr
    /\ UNCHANGED <<env, libvars, attempts, reported>>

Report ==
    /\ cpc = "failed"
    /\ ~is_recoverable(cerr)
    /\ reported' = Append(reported, ErrorResponse_from(cerr))
    /\ cpc' = "stopped"
    /\ cerr' = NoErr
    /\ UNCHANGED <<env, libvars, attempts>>

NextCaller ==
    \/ OpFail
    \/ OpSucceed
    \/ Retry
    \/ Report

SpecCaller == Init /\ [][NextCaller]_vars

-----------------------------------------------------------------------------
(* The properties. *)

\* the kind an ApiError carries
KindOf(e) == e.inner.context

(* C1: an ApiError built from ApiErrorKind::Recoverable(m) answers          *)
(* is_recoverable() with true and one built from Unrecoverable(m) with      *)
(* false, for every message m.                                              *)
C1_RecoverableByVariant ==
    op = "is_recoverable" /\ arg \in ApiErrorKinds =>
        /\ (arg.tag = "Recoverable" => ret = TRUE)
        /\ (arg.tag = "Unrecoverable" => ret = FALSE)

C1_Witness ==
    /\ op = "is_recoverable"
    /\ arg = Recoverable("")
    /\ ret = TRUE

(* C2: an error value whose backtrace accessor returns nothing converts to  *)
(* an envelope whose stack_trace is None, not Some of an empty sequence,    *)
(* and every error value in hand can be converted.                          *)
C2_NoBacktraceNoTrace ==
    /\ (err # NoErr => ENABLED Convert)
    /\ (resp # NoResp /\ Fail_backtrace(src) = None => resp.stack_trace = None)

C2_Witness ==
    /\ resp # NoResp
    /\ src.type = "Other"
    /\ src.backtrace = None
    /\ resp.stack_trace = None

(* C3: with the trace-capture toggle disabled, the envelope of every        *)
(* converted error value, an ApiError built from an ApiErrorKind included,  *)
(* has stack_trace None.                                                    *)
C3_NoTraceWhenDisabled ==
    resp # NoResp /\ ~env => resp.stack_trace = None

(* C4: the envelope's error_message is the display rendering of the         *)
(* converted value and its error_type is the value's error_type().          *)
C4_MessageAndTypeCarried ==
    resp # NoResp =>
        /\ resp.error_message =
               (IF src.type = "ApiError" THEN ApiError_fmt(src) ELSE src.display)
        /\ resp.error_type =
               (IF src.type = "ApiError" THEN ApiError_error_type(src) ELSE src.error_type)

C4_Witness ==
    /\ resp # NoResp
    /\ src.type = "Other"
    /\ resp.error_message = "Test error"
    /\ resp.error_type = "MyError"

(* C5: an ApiError displays as "Recoverable API error: " followed by the    *)
(* message when its kind is Recoverable, and as "Unrecoverable API error: " *)
(* followed by the message when its kind is Unrecoverable.                  *)
C5_DisplayLabels ==
    op = "display" =>
        /\ (KindOf(err).tag = "Recoverable" =>
                ret = "Recoverable API error: " \o KindOf(err).msg)
        /\ (KindOf(err).tag = "Unrecoverable" =>
                ret = "Unrecoverable API error: " \o KindOf(err).msg)

C5_Witness ==
    /\ op = "display"
    /\ ret = "Unrecoverable API error: timeout"

(* C6: error_type() of an ApiError is the same constant string for both     *)
(* kinds and every message, and it is the error_type of the envelope built  *)
(* from the ApiError.                                                       *)
C6_OneTypeTag ==
    /\ (op = "error_type" => ret = "RuntimeApiError")
    /\ (resp # NoResp /\ src.type = "ApiError" => resp.error_type = "RuntimeApiError")

C6_Witness ==
    /\ resp # NoResp
    /\ src.type = "ApiError"
    /\ KindOf(src).tag = "Unrecoverable"
    /\ resp.error_type = "RuntimeApiError"

(* C7: the same error built and converted a second time under the same     *)
(* toggle, whatever backtrace the second construction captures, gives the   *)
(* same error_message, the same error_type and a stack_trace that is        *)
(* present exactly when the first one's is.                                 *)
C7_SameEnvelopeTwice ==
    resp2 # NoResp =>
        /\ resp2.error_message = resp.error_message
        /\ resp2.error_type = resp.error_type
        /\ resp2.stack_trace.tag = resp.stack_trace.tag

C7_Witness ==
    /\ resp2 # NoResp
    /\ src2 # src
    /\ resp.stack_trace = Some(<< <<"a">> >>)
    /\ resp2.stack_trace = Some(<<>>)

(* C8: after a failure with a Recoverable kind the caller goes back to the  *)
(* operation and reports nothing; after a failure with an Unrecoverable     *)
(* kind it reports the envelope of that error and stops; once stopped it    *)
(* neither retries nor reports.                                             *)
C8_RetryOrReport ==
    [][ /\ (cpc = "failed" /\ KindOf(cerr).tag = "Recoverable" =>
                cpc' = "call" /\ reported' = reported)
        /\ (cpc = "failed" /\ KindOf(cerr).tag = "Unrecoverable" =>
                /\ cpc' = "stopped"
                /\ Len(reported') = Len(reported) + 1
                /\ reported'[Len(reported')].error_message =
                       "Unrecoverable API error: " \o KindOf(cerr).msg)
        /\ (cpc = "stopped" => cpc' = "stopped" /\ reported' = reported)
      ]_vars

C8_Witness ==
    /\ cpc = "stopped"
    /\ attempts = 2
    /\ Len(reported) = 1

\* the places of the line feeds of a text
NewlineAt(t) == {i \in 1..Len(t) : t[i] = "\n"}

\* the place of the k-th line feed
NthNewline(t, k) ==
    CHOOSE p \in NewlineAt(t) : Cardinality({q \in NewlineAt(t) : q <= p}) = k

\* the lines of a text: one per line feed, and one more for what follows
\* the last line feed
LineCount(t) ==
    Cardinality(NewlineAt(t)) + (IF Len(t) > 0 /\ t[Len(t)] # "\n" THEN 1 ELSE 0)

LineStart(t, k) == IF k = 1 THEN 1 ELSE NthNewline(t, k - 1) + 1

\* the last character of line k: before its line feed, and before the
\* carriage return of a "\r\n"
LineEnd(t, k) ==
    IF k > Cardinality(NewlineAt(t)) THEN Len(t)
    ELSE LET p == NthNewline(t, k)
         IN  IF p - 1 >= LineStart(t, k) /\ t[p - 1] = "\r" THEN p - 2 ELSE p - 1

(* C9: when the error value exposes a backtrace, stack_trace is Some of the *)
(* lines of the backtrace's rendering: as many elements as the rendering    *)
(* has lines, the k-th element being the k-th line.                         *)
C9_TraceIsTheLines ==
    resp # NoResp /\ Fail_backtrace(src).tag = "Some" =>
        LET t == Backtrace_debug(Fail_backtrace(src).val)
        IN  /\ resp.stack_trace.tag = "Some"
            /\ Len(resp.stack_trace.val) = LineCount(t)
            /\ \A k \in 1..LineCount(t) :
                   resp.stack_trace.val[k] = SubSeq(t, LineStart(t, k), LineEnd(t, k))

C9_Witness ==
    /\ resp # NoResp
    /\ Fail_backtrace(src) = Some(BtCaptured(<<"\n", "\n", "a">>))
    /\ resp.stack_trace = Some(<< <<>>, <<>>, <<"a">> >>)

(* C10: an ApiError built from a chained context has that context's kind,   *)
(* cause and backtrace; a step that leaves an ApiError in hand leaves its   *)
(* kind as it was, and a conversion consumes the value as it was.           *)
C10_ChainAndKindKept ==
    [][ /\ (op' = "from_context" =>
                /\ KindOf(err') = arg'.context
                /\ ApiError_cause(err') = Context_cause(arg')
                /\ ApiError_backtrace(err') = Context_backtrace(arg'))
        /\ (err.type = "ApiError" /\ err'.type = "ApiError" =>
                KindOf(err') = KindOf(err))
        /\ (err.type = "ApiError" /\ op' = "convert" => src' = err)
      ]_vars

C10_Witness ==
    /\ op = "cause"
    /\ arg \in Contexts(env)
    /\ arg.failure.tag = "That"
    /\ arg.failure.bt.captured
    /\ ret = Some("io")

=============================================================================
